---- MODULE Spec2Model ----
(***************************************************************************)
(* FlexibleCircularBuffer<BuffT>: a ring of cells (buff) holding lines of  *)
(* different lengths, a ring of line markers (lines) and the two cursors   *)
(* _indexFirstLine / _indexLastLine.                                       *)
(*                                                                         *)
(* Two builds of WriteToLastLine exist: the template of the header and the *)
(* specialisation for char of FlexibleCircularBuffer.cpp.  charBuf says    *)
(* which one the buffer under study uses.                                  *)
(***************************************************************************)
EXTENDS Integers, Sequences, FiniteSets, TLC

\* ------------------------------------------------------------------ bounds
MinBufferSize == 5
MaxBufferSize == 6
MaxMaxLines == 5
MaxWrites == 5
MaxConcWrites == 3

\* ------------------------------------------------------------- C++ numbers
\* conversion to uint16_t
ToU16(x) == x % (2^16)

\* conversion to int16_t
ToI16(x) == LET u == x % (2^16) IN IF u >= 2^15 THEN u - 2^16 ELSE u

\* the % of C++ truncates towards zero
CRem(a, b) == IF a >= 0 THEN a % b ELSE -((-a) % b)

VARIABLES
    bufferSize,      \* _bufferSize
    maxLines,        \* _maxLines
    charBuf,         \* TRUE: BuffT = char (the specialised WriteToLastLine)
    buff,            \* the cells, 0 .. _bufferSize-1
    lines,           \* the markers, 0 .. _maxLines-1
    indexFirstLine,  \* _indexFirstLine
    indexLastLine,   \* _indexLastLine
    status,          \* "ok", "hung" (a call never returns), "fault" (a wild memory access)
    nWrites,         \* number of accepted WriteLine / WriteToLastLine calls so far
    last,            \* the last call: its name, arguments and what it returned
    mutex,           \* sync_mutex: "free" or the task that took it
    th               \* per task: where it is in its call, and the call's locals

vars == <<bufferSize, maxLines, charBuf, buff, lines, indexFirstLine,
          indexLastLine, status, nWrites, last, mutex, th>>

\* ------------------------------------------------------------------ values
\* A cell holds <<k, j>>: the j-th element of the k-th accepted payload.
\* <<0, 0>> is a cell whose content is indeterminate (never written, or
\* read from outside the array).
Indet == <<0, 0>>

Payload(k, n) == [j \in 1..n |-> <<k, j>>]

\* BufferLineMarker's default member initialisers
DefaultMarker == [startIndex |-> 0, endIndex |-> 0, id |-> 0]

\* nullptr as a BufferLine*
NullLine == [present |-> FALSE, data |-> <<>>, length |-> 0, id |-> 0]

NoCall == [op |-> "none", id |-> 0, data |-> <<>>, length |-> 0,
           accepted |-> FALSE, ret |-> 0, line |-> NullLine]

\* the tasks of the concurrent specification and a task outside any call
Tasks == {"writer", "appender", "reader"}

IdleTask == [pc |-> "idle", id |-> 0, data |-> <<>>, length |-> 0,
             index |-> 0, newLine |-> DefaultMarker, ret |-> 0, line |-> NullLine]

\* ------------------------------------------------------------ BufferLineMarker
\* bool BufferLineMarker::inIntersection(BufferLineMarker &line), this = m
inIntersection(m, line) ==
    IF m.startIndex < m.endIndex /\ line.startIndex < line.endIndex
    THEN IF m.startIndex <= line.startIndex
         THEN m.endIndex >= line.startIndex
         ELSE line.endIndex >= m.startIndex
    ELSE IF m.startIndex > m.endIndex /\ line.startIndex > line.endIndex
    THEN TRUE
    ELSE IF m.startIndex > m.endIndex
    THEN line.startIndex <= m.endIndex \/ line.endIndex >= m.startIndex
    ELSE m.startIndex <= line.endIndex \/ m.endIndex >= line.startIndex

\* ------------------------------------------------------------ private helpers
getNextIndex(index) == ToI16(CRem(index + 1, maxLines))

\* The while loop of FixIntersection.  Only _indexFirstLine changes in the
\* loop, so after _maxLines iterations that all found an intersection every
\* slot intersects newLine and the loop never ends: hang is TRUE then.
RECURSIVE FixLoop(_, _, _, _)
FixLoop(ls, first, newLine, fuel) ==
    IF ~inIntersection(ls[first], newLine)
    THEN [hang |-> FALSE, first |-> first]
    ELSE IF fuel = 0
    THEN [hang |-> TRUE, first |-> first]
    ELSE FixLoop(ls, getNextIndex(first), newLine, fuel - 1)

FixIntersection(ls, first, newLine) == FixLoop(ls, first, newLine, maxLines)

calculateLineLength(line) ==
    IF line.startIndex < line.endIndex
    THEN ToU16(line.endIndex - line.startIndex + 1)
    ELSE ToU16(bufferSize - line.startIndex + line.endIndex + 1)

\* buff[i] as memcpy reads it; outside the array the value is indeterminate
CellAt(b, i) == IF i \in 0..(bufferSize - 1) THEN b[i] ELSE Indet

\* memcpy(lineData + at, buff + from, cnt): the cells copied, in order
CopyOut(b, from, cnt) == [k \in 1..cnt |-> CellAt(b, from + k - 1)]

\* AllocLineData: the copy of a line's cells and its length.  A negative
\* element count becomes a huge size_t and the copy runs off the heap.
AllocLineData(b, line) ==
    LET length == calculateLineLength(line) IN
    IF line.startIndex < line.endIndex
    THEN [fault |-> FALSE, length |-> length,
          data |-> CopyOut(b, line.startIndex, length)]
    ELSE IF bufferSize - line.startIndex < 0 \/ line.endIndex + 1 < 0
    THEN [fault |-> TRUE, length |-> length, data |-> <<>>]
    ELSE [fault |-> FALSE, length |-> length,
          data |-> CopyOut(b, line.startIndex, bufferSize - line.startIndex)
                   \o CopyOut(b, 0, line.endIndex + 1)]

\* CreateBufferLine(index) on the state <<b, ls>>
CreateBufferLine(b, ls, index) ==
    LET a == AllocLineData(b, ls[index]) IN
    [present |-> TRUE, data |-> a.data, length |-> a.length, id |-> ls[index].id]

CreateFaults(b, ls, index) == AllocLineData(b, ls[index]).fault

\* memcpy(buff + dst, data + srcOff, cnt): the new cells, or a fault when the
\* count is negative (a huge size_t) or a cell outside buff / data is touched.
MemcpyFaults(dst, data, srcOff, cnt) ==
    \/ cnt < 0
    \/ cnt > 0 /\ (dst < 0 \/ dst + cnt > bufferSize
                   \/ srcOff < 0 \/ srcOff + cnt > Len(data))

Memcpy(b, dst, data, srcOff, cnt) ==
    [i \in 0..(bufferSize - 1) |->
        IF i >= dst /\ i < dst + cnt
        THEN LET k == srcOff + (i - dst) + 1
             IN IF k \in 1..Len(data) THEN data[k] ELSE Indet
        ELSE b[i]]

\* ------------------------------------------------------------------- reads
\* BufferLine *ReadFirst()
ReadFirstOf(b, ls, first) ==
    IF first < 0 THEN NullLine ELSE CreateBufferLine(b, ls, first)

\* BufferLine *ReadLast()
ReadLastOf(b, ls, lastIdx) ==
    IF lastIdx < 0 THEN NullLine ELSE CreateBufferLine(b, ls, lastIdx)

\* the for loop of ReadNext: the index whose successor is returned, or -1
RECURSIVE ReadNextScan(_, _, _, _)
ReadNextScan(ls, index, lastIdx, id) ==
    IF index = lastIdx THEN -1
    ELSE IF ls[index].id = id THEN index
    ELSE ReadNextScan(ls, getNextIndex(index), lastIdx, id)

\* ReadNextOf returning the line found, not the one after it
ReadNextOfFound(b, ls, first, lastIdx, id) ==
    IF lastIdx < 0 THEN NullLine
    ELSE LET at == ReadNextScan(ls, first, lastIdx, id) IN
         IF at < 0 THEN NullLine ELSE CreateBufferLine(b, ls, at)

\* BufferLine *ReadNext(uint32_t id)
ReadNextOf(b, ls, first, lastIdx, id) ==
    IF lastIdx < 0 THEN NullLine
    ELSE LET at == ReadNextScan(ls, first, lastIdx, id) IN
         IF at < 0 THEN NullLine ELSE CreateBufferLine(b, ls, getNextIndex(at))

\* ------------------------------------------------------------------- Init
\* The constructor: new BuffT[_bufferSize], new BufferLineMarker[_maxLines].
Init ==
    /\ bufferSize \in MinBufferSize..MaxBufferSize
    /\ maxLines \in 1..MaxMaxLines
    /\ charBuf \in BOOLEAN
    /\ buff = [i \in 0..(bufferSize - 1) |-> Indet]
    /\ lines = [i \in 0..(maxLines - 1) |-> DefaultMarker]
    /\ indexFirstLine = -1
    /\ indexLastLine = -1
    /\ status = "ok"
    /\ nWrites = 0
    /\ last = NoCall
    /\ mutex = "free"
    /\ th = [t \in Tasks |-> IdleTask]

\* lines[_indexLastLine].endIndex.  With _indexLastLine == -1 this reads the
\* int16_t in front of the array, which is not part of any object of the
\* buffer: the value read is g.
LastEndIndex(g) == IF indexLastLine = -1 THEN g ELSE lines[indexLastLine].endIndex

\* what the int16_t in front of lines[0] may hold: one value for every way
\* the code can go on from it
UninitEndIndex == -1..bufferSize

\* ---------------------------------------------------------------- WriteLine
\* The two memcpy branches of WriteLine: the cells after the copy and
\* newLine.endIndex; fault when a copy leaves the arrays.
WriteLineCopy(data, length, prevEnd) ==
    LET dst == IF indexLastLine = -1 THEN 0 ELSE prevEnd + 1 IN
    IF prevEnd + length + 1 < bufferSize
    THEN [fault |-> MemcpyFaults(dst, data, 0, length),
          buff |-> Memcpy(buff, dst, data, 0, length),
          endIndex |-> ToI16(dst + length - 1)]
    ELSE LET cnt1 == bufferSize - prevEnd - 1
             end1 == ToI16(cnt1)
             len2 == ToU16(length - end1)
             b1 == Memcpy(buff, dst, data, 0, cnt1)
         IN [fault |-> MemcpyFaults(dst, data, 0, cnt1)
                       \/ MemcpyFaults(0, data, end1, len2),
             buff |-> Memcpy(b1, 0, data, end1, len2),
             endIndex |-> ToI16(len2 - 1)]

\* newLine as WriteLine builds it
WriteLineMarker(endIndex) ==
    IF indexLastLine = -1
    THEN [startIndex |-> 0, endIndex |-> endIndex, id |-> 0]
    ELSE [startIndex |-> ToI16(CRem(lines[indexLastLine].endIndex + 1, bufferSize)),
          endIndex |-> endIndex,
          id |-> lines[indexLastLine].id + 1]

Call(op, id, data, length, accepted, ret, line) ==
    [op |-> op, id |-> id, data |-> data, length |-> length,
     accepted |-> accepted, ret |-> ret, line |-> line]

\* WriteLineRejected without the test against half of the buffer
WriteLineRejectedZeroOnly(length) == length = 0

\* the two early returns of WriteLine: return 0
WriteLineRejected(length) == length = 0 \/ length > bufferSize \div 2

\* uint32_t WriteLine(const BuffT *data, uint16_t length), run by one task
\* from sync_lock() to sync_unlock() with no other task running
WriteLine(data, length) ==
    /\ status = "ok"
    /\ UNCHANGED <<bufferSize, maxLines, charBuf, mutex, th>>
    /\ IF WriteLineRejected(length)
       THEN /\ last' = Call("WriteLine", 0, data, length, FALSE, 0, NullLine)
            /\ UNCHANGED <<buff, lines, indexFirstLine, indexLastLine, status, nWrites>>
       ELSE \E g \in UninitEndIndex :
            LET nextIndex == getNextIndex(indexLastLine)
                c == WriteLineCopy(data, length, LastEndIndex(g))
                newLine == WriteLineMarker(c.endIndex)
                fix == IF indexFirstLine = -1
                       THEN [hang |-> FALSE, first |-> nextIndex]
                       ELSE FixIntersection(lines, indexFirstLine, newLine)
            IN /\ nWrites' = nWrites + 1
               /\ IF c.fault
                  THEN /\ status' = "fault"
                       /\ last' = Call("WriteLine", 0, data, length, TRUE, 0, NullLine)
                       /\ UNCHANGED <<buff, lines, indexFirstLine, indexLastLine>>
                  ELSE IF fix.hang
                  THEN /\ status' = "hung"
                       /\ buff' = c.buff
                       /\ last' = Call("WriteLine", 0, data, length, TRUE, 0, NullLine)
                       /\ UNCHANGED <<lines, indexFirstLine, indexLastLine>>
                  ELSE /\ buff' = c.buff
                       /\ indexFirstLine' = fix.first
                       /\ indexLastLine' = nextIndex
                       /\ lines' = [lines EXCEPT ![nextIndex] = newLine]
                       /\ last' = Call("WriteLine", 0, data, length, TRUE, newLine.id, NullLine)
                       /\ UNCHANGED status

DoWriteLine ==
    /\ nWrites < MaxWrites
    /\ \E length \in 0..(bufferSize \div 2 + 1) :
          WriteLine(Payload(nWrites + 1, length), length)

\* ---------------------------------------------------------- WriteToLastLine
\* The two memcpy branches of the template WriteToLastLine: the cells after
\* the copy and the new lines[_indexLastLine].endIndex.
AppendCopy(data, length) ==
    LET end == lines[indexLastLine].endIndex IN
    IF end + length + 1 < bufferSize
    THEN [fault |-> MemcpyFaults(end + 1, data, 0, length),
          buff |-> Memcpy(buff, end + 1, data, 0, length),
          endIndex |-> ToI16(end + length)]
    ELSE LET cnt1 == bufferSize - end - 1
             end1 == ToI16(cnt1)
             len2 == ToU16(length - end1)
             b1 == Memcpy(buff, end + 1, data, 0, cnt1)
         IN [fault |-> MemcpyFaults(end + 1, data, 0, cnt1)
                       \/ MemcpyFaults(0, data, end1, len2),
             buff |-> Memcpy(b1, 0, data, end1, len2),
             endIndex |-> ToI16(len2 - 1)]

\* The same for FlexibleCircularBuffer<char>::WriteToLastLine, which starts
\* at the last cell of the line (its \0).
AppendCopyChar(data, length) ==
    LET end == lines[indexLastLine].endIndex IN
    IF end + length < bufferSize
    THEN [fault |-> MemcpyFaults(end, data, 0, length),
          buff |-> Memcpy(buff, end, data, 0, length),
          endIndex |-> ToI16(end + length - 1)]
    ELSE LET cnt1 == bufferSize - end - 1
             end1 == ToI16(bufferSize - end - 2)
             len2 == ToU16(length - (end1 + 1))
             b1 == Memcpy(buff, end, data, 0, cnt1)
         IN [fault |-> MemcpyFaults(end, data, 0, cnt1)
                       \/ MemcpyFaults(0, data, end1, len2),
             buff |-> Memcpy(b1, 0, data, end1, len2),
             endIndex |-> ToI16(len2 - 1)]

\* AppendRejected without the comparison of id with the newest line's id
AppendRejectedAnyId(id, length) ==
    \/ indexLastLine = -1
    \/ calculateLineLength(lines[indexLastLine]) > bufferSize \div 2

\* the first if of the template WriteToLastLine: return 0
AppendRejected(id, length) ==
    \/ indexLastLine = -1
    \/ id # lines[indexLastLine].id
    \/ calculateLineLength(lines[indexLastLine]) > bufferSize \div 2

\* the first if of the char WriteToLastLine: return 0
AppendRejectedChar(id, length) ==
    \/ indexLastLine = -1
    \/ id # lines[indexLastLine].id
    \/ calculateLineLength(lines[indexLastLine]) + length > bufferSize \div 2

\* what follows the first if, the same in both builds: the copy c, then
\* FixIntersection(lines[_indexLastLine]), then return id
AppendBody(id, data, length, c) ==
    LET ls == [lines EXCEPT ![indexLastLine].endIndex = c.endIndex]
        fix == FixIntersection(ls, indexFirstLine, ls[indexLastLine])
    IN /\ nWrites' = nWrites + 1
       /\ UNCHANGED indexLastLine
       /\ IF c.fault
          THEN /\ status' = "fault"
               /\ last' = Call("WriteToLastLine", id, data, length, TRUE, 0, NullLine)
               /\ UNCHANGED <<buff, lines, indexFirstLine>>
          ELSE IF fix.hang
          THEN /\ status' = "hung"
               /\ buff' = c.buff
               /\ lines' = ls
               /\ last' = Call("WriteToLastLine", id, data, length, TRUE, 0, NullLine)
               /\ UNCHANGED indexFirstLine
          ELSE /\ buff' = c.buff
               /\ lines' = ls
               /\ indexFirstLine' = fix.first
               /\ last' = Call("WriteToLastLine", id, data, length, TRUE, id, NullLine)
               /\ UNCHANGED status

AppendReturn0(id, data, length) ==
    /\ last' = Call("WriteToLastLine", id, data, length, FALSE, 0, NullLine)
    /\ UNCHANGED <<buff, lines, indexFirstLine, indexLastLine, status, nWrites>>

\* uint32_t WriteToLastLine(uint32_t id, const BuffT *data, uint16_t length)
WriteToLastLine(id, data, length) ==
    /\ status = "ok"
    /\ ~charBuf
    /\ UNCHANGED <<bufferSize, maxLines, charBuf, mutex, th>>
    /\ IF AppendRejected(id, length)
       THEN AppendReturn0(id, data, length)
       ELSE AppendBody(id, data, length, AppendCopy(data, length))

\* template <> uint32_t FlexibleCircularBuffer<char>::WriteToLastLine(...)
WriteToLastLineChar(id, data, length) ==
    /\ status = "ok"
    /\ charBuf
    /\ UNCHANGED <<bufferSize, maxLines, charBuf, mutex, th>>
    /\ IF AppendRejectedChar(id, length)
       THEN AppendReturn0(id, data, length)
       ELSE AppendBody(id, data, length, AppendCopyChar(data, length))

DoWriteToLastLine ==
    /\ nWrites < MaxWrites
    /\ \E id \in 0..MaxWrites, length \in 0..(bufferSize \div 2 + 1) :
          WriteToLastLine(id, Payload(nWrites + 1, length), length)

DoWriteToLastLineChar ==
    /\ nWrites < MaxWrites
    /\ \E id \in 0..MaxWrites, length \in 0..(bufferSize \div 2 + 1) :
          WriteToLastLineChar(id, Payload(nWrites + 1, length), length)

\* ------------------------------------------------------------ read actions
ReadDone(op, id, line, faults) ==
    /\ status = "ok"
    /\ status' = IF faults THEN "fault" ELSE "ok"
    /\ last' = Call(op, id, <<>>, 0, FALSE, 0, IF faults THEN NullLine ELSE line)
    /\ UNCHANGED <<bufferSize, maxLines, charBuf, buff, lines, indexFirstLine,
                   indexLastLine, nWrites, mutex, th>>

ReadFirst ==
    ReadDone("ReadFirst", 0, ReadFirstOf(buff, lines, indexFirstLine),
             indexFirstLine >= 0 /\ CreateFaults(buff, lines, indexFirstLine))

ReadLast ==
    ReadDone("ReadLast", 0, ReadLastOf(buff, lines, indexLastLine),
             indexLastLine >= 0 /\ CreateFaults(buff, lines, indexLastLine))

ReadNextFaults(id) ==
    /\ indexLastLine >= 0
    /\ LET at == ReadNextScan(lines, indexFirstLine, indexLastLine, id)
       IN at >= 0 /\ CreateFaults(buff, lines, getNextIndex(at))

ReadNext(id) ==
    ReadDone("ReadNext", id,
             ReadNextOf(buff, lines, indexFirstLine, indexLastLine, id),
             ReadNextFaults(id))

DoReadNext == \E id \in 0..MaxWrites : ReadNext(id)

\* BufferLine *FreeAndReadNext(BufferLine *line): line is the one the last
\* read returned
FreeAndReadNext ==
    /\ last.line.present
    /\ ReadDone("FreeAndReadNext", last.line.id,
                ReadNextOf(buff, lines, indexFirstLine, indexLastLine, last.line.id),
                ReadNextFaults(last.line.id))

Next ==
    \/ DoWriteLine
    \/ DoWriteToLastLine
    \/ DoWriteToLastLineChar
    \/ ReadFirst
    \/ ReadLast
    \/ DoReadNext
    \/ FreeAndReadNext

Spec == Init /\ [][Next]_vars

\* ================================================= the calls, step by step
\* The same calls run by three tasks, one statement group at a time.  Only
\* WriteLine and the reads take sync_mutex; WriteToLastLine never does.
Set(t, r) == th' = [th EXCEPT ![t] = r]

At(t, pc) == status = "ok" /\ th[t].pc = pc

Shared == <<buff, lines, indexFirstLine, indexLastLine>>

Config == <<bufferSize, maxLines, charBuf>>

\* ---- WriteLine, task "writer"
\* lines 154-163: the call and its two early returns
WCall ==
    /\ At("writer", "idle")
    /\ nWrites < MaxConcWrites
    /\ \E length \in 1..(bufferSize \div 2) :
         /\ ~WriteLineRejected(length)
         /\ Set("writer", [IdleTask EXCEPT !.pc = "w_lock", !.length = length,
                                           !.data = Payload(nWrites + 1, length)])
    /\ nWrites' = nWrites + 1
    /\ UNCHANGED <<Config, Shared, status, last, mutex>>

\* line 165: sync_lock()
WLock ==
    /\ At("writer", "w_lock")
    /\ mutex = "free"
    /\ mutex' = "writer"
    /\ Set("writer", [th["writer"] EXCEPT !.pc = "w_copy"])
    /\ UNCHANGED <<Config, Shared, status, last, nWrites>>

\* lines 167-206: nextIndex, the copy, newLine
WCopy ==
    /\ At("writer", "w_copy")
    /\ \E g \in UninitEndIndex :
         LET me == th["writer"]
             c == WriteLineCopy(me.data, me.length, LastEndIndex(g))
         IN IF c.fault
            THEN /\ status' = "fault"
                 /\ UNCHANGED <<buff, th>>
            ELSE /\ buff' = c.buff
                 /\ Set("writer", [me EXCEPT !.pc = "w_fix",
                                             !.index = getNextIndex(indexLastLine),
                                             !.newLine = WriteLineMarker(c.endIndex)])
                 /\ UNCHANGED status
    /\ UNCHANGED <<Config, lines, indexFirstLine, indexLastLine, last, nWrites, mutex>>

\* lines 210-213: the first line, or FixIntersection(newLine)
WFix ==
    /\ At("writer", "w_fix")
    /\ LET me == th["writer"]
           fix == IF indexFirstLine = -1
                  THEN [hang |-> FALSE, first |-> me.index]
                  ELSE FixIntersection(lines, indexFirstLine, me.newLine)
       IN IF fix.hang
          THEN /\ status' = "hung"
               /\ UNCHANGED <<indexFirstLine, th>>
          ELSE /\ indexFirstLine' = fix.first
               /\ Set("writer", [me EXCEPT !.pc = "w_setlast"])
               /\ UNCHANGED status
    /\ UNCHANGED <<Config, buff, lines, indexLastLine, last, nWrites, mutex>>

\* line 216: _indexLastLine = nextIndex
WSetLast ==
    /\ At("writer", "w_setlast")
    /\ indexLastLine' = th["writer"].index
    /\ Set("writer", [th["writer"] EXCEPT !.pc = "w_store"])
    /\ UNCHANGED <<Config, buff, lines, indexFirstLine, status, last, nWrites, mutex>>

\* line 217: lines[_indexLastLine] = newLine
WStore ==
    /\ At("writer", "w_store")
    /\ lines' = [lines EXCEPT ![indexLastLine] = th["writer"].newLine]
    /\ Set("writer", [th["writer"] EXCEPT !.pc = "w_unlock"])
    /\ UNCHANGED <<Config, buff, indexFirstLine, indexLastLine, status, last, nWrites, mutex>>

\* lines 219-222: sync_unlock(); return newLine.id
WUnlock ==
    /\ At("writer", "w_unlock")
    /\ mutex' = "free"
    /\ Set("writer", [IdleTask EXCEPT !.ret = th["writer"].newLine.id])
    /\ UNCHANGED <<Config, Shared, status, last, nWrites>>

\* ---- WriteToLastLine, task "appender"
\* the call: WriteToLastLine(id, data, length)
ACall ==
    /\ At("appender", "idle")
    /\ nWrites < MaxConcWrites
    /\ \E id \in 0..MaxConcWrites, length \in 1..(bufferSize \div 2) :
         Set("appender", [IdleTask EXCEPT !.pc = "a_check", !.id = id, !.length = length,
                                          !.data = Payload(nWrites + 1, length)])
    /\ nWrites' = nWrites + 1
    /\ UNCHANGED <<Config, Shared, status, last, mutex>>

\* header lines 232-234 / cpp lines 12-14: the first if
ACheck ==
    /\ At("appender", "a_check")
    /\ LET me == th["appender"]
           rejected == IF charBuf THEN AppendRejectedChar(me.id, me.length)
                       ELSE AppendRejected(me.id, me.length)
       IN Set("appender", IF rejected THEN [IdleTask EXCEPT !.ret = 0]
                          ELSE [me EXCEPT !.pc = "a_copy"])
    /\ UNCHANGED <<Config, Shared, status, last, nWrites, mutex>>

\* header lines 237-254 / cpp lines 17-34: the copy into the cells after
\* lines[_indexLastLine] and its new endIndex, whatever _indexLastLine is now
ACopy ==
    /\ At("appender", "a_copy")
    /\ LET me == th["appender"]
           c == IF charBuf THEN AppendCopyChar(me.data, me.length)
                ELSE AppendCopy(me.data, me.length)
       IN IF c.fault
          THEN /\ status' = "fault"
               /\ UNCHANGED <<buff, lines, th>>
          ELSE /\ buff' = c.buff
               /\ lines' = [lines EXCEPT ![indexLastLine].endIndex = c.endIndex]
               /\ Set("appender", [me EXCEPT !.pc = "a_fix"])
               /\ UNCHANGED status
    /\ UNCHANGED <<Config, indexFirstLine, indexLastLine, last, nWrites, mutex>>

\* header lines 256-258 / cpp lines 36-38: FixIntersection, return id
AFix ==
    /\ At("appender", "a_fix")
    /\ LET me == th["appender"]
           fix == FixIntersection(lines, indexFirstLine, lines[indexLastLine])
       IN IF fix.hang
          THEN /\ status' = "hung"
               /\ UNCHANGED <<indexFirstLine, th>>
          ELSE /\ indexFirstLine' = fix.first
               /\ Set("appender", [IdleTask EXCEPT !.ret = me.id])
               /\ UNCHANGED status
    /\ UNCHANGED <<Config, buff, lines, indexLastLine, last, nWrites, mutex>>

\* ---- ReadFirst / ReadLast, task "reader"
\* the call: index 0 is ReadFirst, index 1 is ReadLast
RCall ==
    /\ At("reader", "idle")
    /\ \E which \in {0, 1} :
         Set("reader", [IdleTask EXCEPT !.pc = "r_check", !.index = which])
    /\ UNCHANGED <<Config, Shared, status, last, nWrites, mutex>>

\* lines 265-266 / 278-279: the test of the cursor, before sync_lock()
RCheck ==
    /\ At("reader", "r_check")
    /\ LET me == th["reader"]
           cursor == IF me.index = 0 THEN indexFirstLine ELSE indexLastLine
       IN Set("reader", IF cursor < 0 THEN IdleTask
                        ELSE [me EXCEPT !.pc = "r_lock"])
    /\ UNCHANGED <<Config, Shared, status, last, nWrites, mutex>>

\* lines 268 / 281: sync_lock()
RLock ==
    /\ At("reader", "r_lock")
    /\ mutex = "free"
    /\ mutex' = "reader"
    /\ Set("reader", [th["reader"] EXCEPT !.pc = "r_copy"])
    /\ UNCHANGED <<Config, Shared, status, last, nWrites>>

\* lines 269 / 282: CreateBufferLine(cursor)
RCopy ==
    /\ At("reader", "r_copy")
    /\ LET me == th["reader"]
           cursor == IF me.index = 0 THEN indexFirstLine ELSE indexLastLine
       IN IF CreateFaults(buff, lines, cursor)
          THEN /\ status' = "fault"
               /\ UNCHANGED th
          ELSE /\ Set("reader", [me EXCEPT !.pc = "r_unlock",
                                           !.line = CreateBufferLine(buff, lines, cursor)])
               /\ UNCHANGED status
    /\ UNCHANGED <<Config, Shared, last, nWrites, mutex>>

\* lines 270-271 / 283-284: sync_unlock(); return ret
RUnlock ==
    /\ At("reader", "r_unlock")
    /\ mutex' = "free"
    /\ Set("reader", IdleTask)
    /\ UNCHANGED <<Config, Shared, status, last, nWrites>>

NextConc ==
    \/ WCall \/ WLock \/ WCopy \/ WFix \/ WSetLast \/ WStore \/ WUnlock
    \/ ACall \/ ACheck \/ ACopy \/ AFix
    \/ RCall \/ RCheck \/ RLock \/ RCopy \/ RUnlock

SpecConc == Init /\ [][NextConc]_vars

\* ---- ReadNext, task "reader"
\* the call: ReadNext(id)
NCall ==
    /\ At("reader", "idle")
    /\ \E id \in 0..MaxConcWrites :
         Set("reader", [IdleTask EXCEPT !.pc = "n_check", !.id = id])
    /\ UNCHANGED <<Config, Shared, status, last, nWrites, mutex>>

\* lines 291-292: the test of _indexLastLine, before sync_lock()
NCheck ==
    /\ At("reader", "n_check")
    /\ Set("reader", IF indexLastLine < 0 THEN IdleTask
                     ELSE [th["reader"] EXCEPT !.pc = "n_lock"])
    /\ UNCHANGED <<Config, Shared, status, last, nWrites, mutex>>

\* line 294: sync_lock()
NLock ==
    /\ At("reader", "n_lock")
    /\ mutex = "free"
    /\ mutex' = "reader"
    /\ Set("reader", [th["reader"] EXCEPT !.pc = "n_scan"])
    /\ UNCHANGED <<Config, Shared, status, last, nWrites>>

\* the scan with a return in place of the break of line 304: the line found
\* is returned from inside the loop, sync_unlock() is not reached
NScanReturnInLoop ==
    /\ At("reader", "n_scan")
    /\ LET me == th["reader"]
           at == ReadNextScan(lines, indexFirstLine, indexLastLine, me.id)
       IN IF at >= 0 /\ CreateFaults(buff, lines, getNextIndex(at))
          THEN /\ status' = "fault"
               /\ UNCHANGED th
          ELSE /\ Set("reader",
                      IF at >= 0
                      THEN [IdleTask EXCEPT
                              !.line = CreateBufferLine(buff, lines, getNextIndex(at))]
                      ELSE [me EXCEPT !.pc = "n_unlock", !.line = NullLine])
               /\ UNCHANGED status
    /\ UNCHANGED <<Config, Shared, last, nWrites, mutex>>

\* lines 295-306: ret = nullptr, the for loop, CreateBufferLine and break
NScan ==
    /\ At("reader", "n_scan")
    /\ LET me == th["reader"]
           at == ReadNextScan(lines, indexFirstLine, indexLastLine, me.id)
       IN IF at >= 0 /\ CreateFaults(buff, lines, getNextIndex(at))
          THEN /\ status' = "fault"
               /\ UNCHANGED th
          ELSE /\ Set("reader",
                      [me EXCEPT !.pc = "n_unlock",
                                 !.line = IF at >= 0
                                          THEN CreateBufferLine(buff, lines, getNextIndex(at))
                                          ELSE NullLine])
               /\ UNCHANGED status
    /\ UNCHANGED <<Config, Shared, last, nWrites, mutex>>

\* lines 308-311: sync_unlock(); return ret
NUnlock ==
    /\ At("reader", "n_unlock")
    /\ mutex' = "free"
    /\ Set("reader", [IdleTask EXCEPT !.line = th["reader"].line])
    /\ UNCHANGED <<Config, Shared, status, last, nWrites>>

\* all five calls, step by step
NextLock ==
    \/ WCall \/ WLock \/ WCopy \/ WFix \/ WSetLast \/ WStore \/ WUnlock
    \/ ACall \/ ACheck \/ ACopy \/ AFix
    \/ RCall \/ RCheck \/ RLock \/ RCopy \/ RUnlock
    \/ NCall \/ NCheck \/ NLock \/ NScan \/ NUnlock

SpecLock == Init /\ [][NextLock]_vars

\* ===================================================================== claims
\* The active window: the marker slots from _indexFirstLine to
\* _indexLastLine, walked forward circularly.
RECURSIVE Walk(_, _, _)
Walk(i, lastIdx, fuel) ==
    IF i = lastIdx \/ fuel = 0 THEN <<i>>
    ELSE <<i>> \o Walk(getNextIndex(i), lastIdx, fuel - 1)

WindowOf(first, lastIdx) ==
    IF first < 0 \/ lastIdx < 0 THEN <<>> ELSE Walk(first, lastIdx, maxLines)

Window == WindowOf(indexFirstLine, indexLastLine)

\* The cells of an extent: [start, end], or [start, capacity-1] and [0, end]
\* when start > end.
Cells(m) ==
    IF m.startIndex <= m.endIndex
    THEN m.startIndex..m.endIndex
    ELSE (m.startIndex..(bufferSize - 1)) \cup (0..m.endIndex)

ExtentLength(m) == Cardinality(Cells(m))

\* the call that led to this state was accepted and has returned
Returned(op) == status = "ok" /\ last.op = op /\ last.accepted

\* C1: no two distinct markers of the active window share a cell.
C1_NoOverlap ==
    status = "ok" =>
        \A p, q \in 1..Len(Window) :
            p # q => Cells(lines[Window[p]]) \cap Cells(lines[Window[q]]) = {}

\* C2: after an accepted WriteLine(data, n), ReadLast() returns a line of
\* length n with the cells of data and the id WriteLine returned.
C2_RoundTrip ==
    Returned("WriteLine") =>
        LET r == ReadLastOf(buff, lines, indexLastLine) IN
        /\ ~CreateFaults(buff, lines, indexLastLine)
        /\ r.present
        /\ r.length = last.length
        /\ r.data = last.data
        /\ r.id = last.ret

\* the ids of the lines of a window
WindowIds(ls, first, lastIdx) ==
    {ls[WindowOf(first, lastIdx)[p]].id : p \in 1..Len(WindowOf(first, lastIdx))}

\* C3: a WriteLine or WriteToLastLine call removes a line from the active
\* window only if the line's cells meet the cells of the line just written
\* or extended.  Stated for the calls that find a free slot in the marker
\* ring, so that no line leaves the window by the ring running full.
C3_EvictsOnlyOverwritten ==
    [][((Returned("WriteLine")' \/ Returned("WriteToLastLine")')
        /\ Len(Window) < maxLines) =>
          \A p \in 1..Len(Window) :
              lines[Window[p]].id \notin WindowIds(lines', indexFirstLine', indexLastLine')
                  => Cells(lines[Window[p]]) \cap Cells(lines'[indexLastLine']) # {}]_vars

\* C4: every accepted WriteLine / WriteToLastLine call returns: the loop of
\* FixIntersection ends.
C4_EvictionTerminates == status # "hung"

\* C5: no line is longer than capacity/2 cells: WriteToLastLine never
\* returns having made the newest line longer than that.
C5_AppendKeepsBound ==
    Returned("WriteToLastLine") =>
        ExtentLength(lines[indexLastLine]) <= bufferSize \div 2

\* the buffer state: cells, markers and both cursors
BufferState == <<buff, lines, indexFirstLine, indexLastLine>>

\* C6: the copy of WriteToLastLine(id, ...) goes into the line whose id is
\* id: the marker it extends is that line's.
C6_AppendWritesOnlyItsLine ==
    [][(th["appender"].pc = "a_copy" /\ th'["appender"].pc = "a_fix")
          => lines[indexLastLine].id = th["appender"].id]_vars

\* the statements that read or write the cells, the markers or the cursors
Accessing(t) ==
    th[t].pc \in {"w_copy", "w_fix", "w_setlast", "w_store",
                  "a_check", "a_copy", "a_fix", "r_check", "r_copy"}

\* those of them that write
Modifying(t) ==
    th[t].pc \in {"w_copy", "w_fix", "w_setlast", "w_store", "a_copy", "a_fix"}

\* C7: no task is about to write the buffer state while another task is
\* about to read or write it.
C7_MutualExclusion ==
    \A t1, t2 \in Tasks : t1 # t2 => ~(Modifying(t1) /\ Accessing(t2))

\* C8: WriteToLastLine(id, ...) on an empty buffer, or with an id that is
\* not the newest line's, returns 0 and changes nothing.
C8_StaleAppendRejected ==
    [][(last'.op = "WriteToLastLine"
        /\ (indexLastLine = -1 \/ last'.id # lines[indexLastLine].id))
          => (last'.ret = 0 /\ ~last'.accepted /\ status' = "ok"
              /\ BufferState' = BufferState)]_vars

C8_Witness ==
    /\ last.op = "WriteToLastLine"
    /\ ~last.accepted
    /\ indexLastLine >= 0
    /\ last.id # lines[indexLastLine].id
    /\ last.length > 0
    /\ Len(Window) >= 2

\* C9: WriteLine(data, length) with length = 0 or length > capacity/2
\* returns 0 and changes nothing.
C9_BadLengthRejected ==
    [][(last'.op = "WriteLine"
        /\ (last'.length = 0 \/ last'.length > bufferSize \div 2))
          => (last'.ret = 0 /\ ~last'.accepted /\ status' = "ok"
              /\ BufferState' = BufferState)]_vars

C9_Witness ==
    /\ last.op = "WriteLine"
    /\ last.length > bufferSize \div 2
    /\ last.ret = 0
    /\ indexLastLine >= 0

\* C10: a WriteToLastLine(id, d2, n2) of the template that passes the first
\* if returns id, and ReadLast() then returns id with the line's former
\* cells followed by d2.
C10_AppendRoundTrip ==
    [][(last'.op = "WriteToLastLine" /\ last'.accepted /\ ~charBuf
        /\ last'.length > 0) =>
          LET before == ReadLastOf(buff, lines, indexLastLine)
              r == ReadLastOf(buff', lines', indexLastLine')
          IN /\ status' = "ok"
             /\ last'.ret = last'.id
             /\ r.id = last'.id
             /\ r.data = before.data \o last'.data
             /\ r.length = before.length + last'.length]_vars

\* the ids of the active window, oldest to newest
WindowIdSeq == [p \in 1..Len(Window) |-> lines[Window[p]].id]

\* C11: the first line written gets id 0 and every later WriteLine returns
\* the newest id plus 1; the ids of the active window, walked from
\* _indexFirstLine to _indexLastLine, go up by exactly 1, and the newest
\* line holds the largest.
C11_MonotonicIds ==
    /\ [](status = "ok" =>
            /\ \A p \in 1..(Len(Window) - 1) : WindowIdSeq[p + 1] = WindowIdSeq[p] + 1
            /\ \A p \in 1..Len(Window) : WindowIdSeq[p] <= lines[indexLastLine].id)
    /\ [][Returned("WriteLine")' =>
            /\ last'.ret = (IF indexLastLine = -1 THEN 0 ELSE lines[indexLastLine].id + 1)
            /\ lines'[indexLastLine'].id = last'.ret]_vars

\* the cells of an extent in order, as they stand in buff
ExtentContent(m) ==
    [k \in 1..ExtentLength(m) |-> buff[(m.startIndex + k - 1) % bufferSize]]

\* the line a read ought to return for the marker m
SnapshotOf(m) ==
    [present |-> TRUE, data |-> ExtentContent(m), length |-> ExtentLength(m), id |-> m.id]

\* C12: ReadNext(id) returns the line that follows the line with this id in
\* the active window, with its cells and its id, when id is in the window
\* and is not the newest line; it returns nullptr otherwise.
C12_ReadNext ==
    last.op = "ReadNext" =>
        /\ status = "ok"
        /\ IF \E p \in 1..(Len(Window) - 1) : WindowIdSeq[p] = last.id
           THEN \E p \in 1..(Len(Window) - 1) :
                    /\ WindowIdSeq[p] = last.id
                    /\ last.line = SnapshotOf(lines[Window[p + 1]])
           ELSE last.line = NullLine

\* ReadFirst() followed by FreeAndReadNext(line) for as long as a line comes
\* back: the ids of the lines returned, in order.  line is what the last
\* read returned; no drain is longer than fuel lines unless it goes round.
RECURSIVE DrainFrom(_, _)
DrainFrom(line, fuel) ==
    IF ~line.present \/ fuel = 0 THEN <<>>
    ELSE <<line.id>> \o DrainFrom(ReadNextOf(buff, lines, indexFirstLine,
                                             indexLastLine, line.id), fuel - 1)

Drain == DrainFrom(ReadFirstOf(buff, lines, indexFirstLine), maxLines + 1)

\* WriteLine calls and the reads of a drain, nothing else
NextDrain ==
    \/ DoWriteLine
    \/ ReadFirst
    \/ FreeAndReadNext

SpecDrain == Init /\ [][NextDrain]_vars

Front(q) == SubSeq(q, 1, Len(q) - 1)

\* C14: in the char build a WriteToLastLine(id, data, n) that passes the
\* first if returns id and leaves the newest line holding its former cells
\* without the last one, followed by data: length oldLength + n - 1, same id.
\* Stated for the calls whose FixIntersection loop comes to an end.
C14_CharAppend ==
    [][(last'.op = "WriteToLastLine" /\ last'.accepted /\ charBuf
        /\ last'.length > 0 /\ status' # "hung") =>
          LET before == SnapshotOf(lines[indexLastLine])
              after == SnapshotOf(lines[indexLastLine])'
          IN /\ status' = "ok"
             /\ last'.ret = last'.id
             /\ after.id = before.id
             /\ after.length = before.length + last'.length - 1
             /\ after.data = Front(before.data) \o last'.data]_vars

\* C15: ReadFirst() and ReadLast() return nullptr when no WriteLine has got
\* through yet, and a line after every call that follows the first WriteLine
\* that did.
C15_EmptyIffNeverWritten ==
    last.op \in {"ReadFirst", "ReadLast"} =>
        /\ status = "ok"
        /\ last.line.present <=> nWrites > 0

\* C16: a WriteLine of n cells that returns has put the new marker at
\* startIndex = (endIndex of the line before + 1) mod _bufferSize, with
\* endIndex = startIndex + n - 1 when startIndex + n <= _bufferSize and
\* n - (_bufferSize - startIndex) - 1 when not, both within 0 .. _bufferSize-1.
\* Stated for the writes into a buffer that holds a line already.
C16_WritePlacement ==
    [][(Returned("WriteLine")' /\ indexLastLine >= 0) =>
          LET n == last'.length
              m == lines'[indexLastLine']
              start == (lines[indexLastLine].endIndex + 1) % bufferSize
          IN /\ m.startIndex = start
             /\ m.endIndex = (IF start + n <= bufferSize THEN start + n - 1
                              ELSE n - (bufferSize - start) - 1)
             /\ m.startIndex \in 0..(bufferSize - 1)
             /\ m.endIndex \in 0..(bufferSize - 1)]_vars

\* ------------------------------------------- inIntersection on its own
\* The marker of the extent of len cells that starts at cell start: its last
\* cell is endIndex, behind the arena end when the extent wraps.
ExtentMarker(start, len, id) ==
    [startIndex |-> start, endIndex |-> (start + len - 1) % bufferSize, id |-> id]

\* two markers A = lines[0] and B = lines[1] of 1 .. _bufferSize / 2 cells
InitOverlap ==
    /\ bufferSize \in MinBufferSize..MaxBufferSize
    /\ maxLines = 2
    /\ charBuf = FALSE
    /\ buff = [i \in 0..(bufferSize - 1) |-> Indet]
    /\ \E sa, sb \in 0..(bufferSize - 1), la, lb \in 1..(bufferSize \div 2) :
          lines = [i \in 0..1 |-> IF i = 0 THEN ExtentMarker(sa, la, 0)
                                  ELSE ExtentMarker(sb, lb, 1)]
    /\ indexFirstLine = 0
    /\ indexLastLine = 1
    /\ status = "ok"
    /\ nWrites = 0
    /\ last = NoCall
    /\ mutex = "free"
    /\ th = [t \in Tasks |-> IdleTask]

\* lines[a].inIntersection(lines[1 - a]); last.id is a, last.accepted the result
CallInIntersection ==
    /\ \E a \in 0..1 :
          last' = Call("inIntersection", a, <<>>, 0,
                       inIntersection(lines[a], lines[1 - a]), 0, NullLine)
    /\ UNCHANGED <<bufferSize, maxLines, charBuf, buff, lines, indexFirstLine,
                   indexLastLine, status, nWrites, mutex, th>>

NextOverlap == CallInIntersection

SpecOverlap == InitOverlap /\ [][NextOverlap]_vars

\* C17: inIntersection(A, B) is true exactly when the extents A and B, of
\* 1 .. _bufferSize / 2 cells each, have a cell in common.
C17_OverlapIsCellIntersection ==
    last.op = "inIntersection" =>
        (last.accepted <=> Cells(lines[0]) \cap Cells(lines[1]) # {})

\* C18: a line returned by ReadFirst / ReadLast while other tasks write is
\* one line as a whole: while a WriteToLastLine(id, data, ...) is between
\* its copy and its return, no line with another id is returned holding
\* cells of data.
C18_ReadAtomicity ==
    LET r == th["reader"]
        a == th["appender"]
    IN (r.pc = "r_unlock" /\ a.pc = "a_fix") =>
          \A j \in 1..Len(r.line.data) :
              r.line.data[j][1] = a.data[1][1] => r.line.id = a.id

\* the marker slots of the active window
WindowSlots == {Window[p] : p \in 1..Len(Window)}

\* C19: FixIntersection never moves _indexFirstLine past the newest line:
\* after a WriteLine or WriteToLastLine that returns, the active window
\* holds no slot that was outside it before the call, but the slot of the
\* line just written, and the oldest id is not larger than the newest.
C19_EvictionStopsAtNewest ==
    [][(Returned("WriteLine")' \/ Returned("WriteToLastLine")') =>
          /\ WindowSlots' \subseteq (WindowSlots \cup {indexLastLine'})
          /\ indexLastLine' \in WindowSlots'
          /\ lines'[indexFirstLine'].id <= lines'[indexLastLine'].id]_vars

\* the index WriteLine applies to lines when it reads
\* lines[_indexLastLine].endIndex to choose between its two copies
MarkerIndexRead == indexLastLine

\* C20: no call uses an index outside lines or a cell outside buff: no
\* memcpy leaves the arrays, and the marker WriteLine reads before its copy
\* is one of lines[0] .. lines[_maxLines - 1].
C20_IndexSafety ==
    [][/\ status' # "fault"
       /\ (last'.op = "WriteLine" /\ last'.accepted)
             => MarkerIndexRead \in 0..(maxLines - 1)]_vars

\* the tasks whose calls take sync_mutex
LockingTasks == {"writer", "reader"}

\* a task waiting in sync_lock()
AtLock(t) == th[t].pc \in {"w_lock", "r_lock", "n_lock"}

\* a task between its sync_lock() and its sync_unlock()
InSection(t) ==
    th[t].pc \in {"w_copy", "w_fix", "w_setlast", "w_store", "w_unlock",
                  "r_copy", "r_unlock", "n_scan", "n_unlock"}

\* a task about to call sync_unlock()
AtUnlock(t) == th[t].pc \in {"w_unlock", "r_unlock", "n_unlock"}

\* C21: lock discipline of WriteLine, ReadFirst, ReadLast and ReadNext.  A
\* task holds sync_mutex exactly between its sync_lock() and its
\* sync_unlock(): it does not hold it outside a call, so the mutex is free
\* when no locking call is in progress, nor while it waits in sync_lock().
\* Every step that gives the mutex up is the sync_unlock() of its holder
\* followed by the return, every return of a call that took the mutex gives
\* it up, and the mutex is only ever taken when it is free and only ever
\* given by the task that holds it.
C21_LockDiscipline ==
    /\ [](/\ mutex \in LockingTasks \cup {"free"}
          /\ \A t \in LockingTasks :
               /\ mutex = t <=> InSection(t)
               /\ th[t].pc = "idle" => mutex # t
               /\ AtLock(t) => mutex # t
          /\ (\A t \in LockingTasks : th[t].pc = "idle") => mutex = "free")
    /\ [][\A t \in LockingTasks :
            /\ (mutex # t /\ mutex' = t) => (mutex = "free" /\ AtLock(t))
            /\ (mutex = t /\ mutex' # t) =>
                  (AtUnlock(t) /\ mutex' = "free" /\ th'[t].pc = "idle")
            /\ (th[t].pc # "idle" /\ th'[t].pc = "idle") =>
                  \/ ~InSection(t) /\ mutex' = mutex
                  \/ AtUnlock(t) /\ mutex = t /\ mutex' = "free"]_vars

\* a WriteLine and a ReadNext have both taken the mutex, finished and
\* returned a line: the writer its second id or a later one, the reader the
\* line after the one asked for
C21_Witness ==
    /\ status = "ok"
    /\ mutex = "free"
    /\ th["writer"].pc = "idle" /\ th["writer"].ret >= 1
    /\ th["reader"].pc = "idle" /\ th["reader"].line.present
    /\ th["reader"].line.id >= 1

====
